---- MODULE Spec2Model ----
(***************************************************************************)
(* Model of the PII redactor service (src/main.py): the regex pattern      *)
(* table, the entity validator, the EMAIL overlap resolver, the merger,    *)
(* the redactor, the final email sweep and the /redact handler.            *)
(*                                                                         *)
(* Strings are sequences of one-character strings.  Offsets are Python     *)
(* offsets (0-based, half open): the slice text[a:b] is SubSeq(text,a+1,b).*)
(* Scores are in hundredths (0.6 is 60), word frequencies in tenths        *)
(* (4.5 is 45).                                                            *)
(***************************************************************************)
EXTENDS Integers, Sequences, FiniteSets, TLC

\* ------------------------------------------------------------------------
\* Characters
\* ------------------------------------------------------------------------
LowerSeq == <<"a","b","c","d","e","f","g","h","i","j","k","l","m",
              "n","o","p","q","r","s","t","u","v","w","x","y","z">>
UpperSeq == <<"A","B","C","D","E","F","G","H","I","J","K","L","M",
              "N","O","P","Q","R","S","T","U","V","W","X","Y","Z">>
Range(f) == { f[i] : i \in DOMAIN f }
Lower == Range(LowerSeq)
Upper == Range(UpperSeq)
Alpha == Lower \cup Upper
Digit == {"0","1","2","3","4","5","6","7","8","9"}
AlNum == Alpha \cup Digit
\* \w of the re module, on the characters of the model
WordChar == AlNum \cup {"_"}
\* \s of the re module
Space == {" ", "\t", "\n", "\r", "\f"}

\* str.lower() and str.upper(), one character
LowerChar(c) == IF c \in Upper THEN LowerSeq[CHOOSE i \in DOMAIN UpperSeq : UpperSeq[i] = c] ELSE c
UpperChar(c) == IF c \in Lower THEN UpperSeq[CHOOSE i \in DOMAIN LowerSeq : LowerSeq[i] = c] ELSE c
lower(s) == [i \in DOMAIN s |-> LowerChar(s[i])]
upper(s) == [i \in DOMAIN s |-> UpperChar(s[i])]

\* str.strip(): leading and trailing whitespace removed
RECURSIVE lstrip(_)
lstrip(s) == IF s # <<>> /\ Head(s) \in Space THEN lstrip(Tail(s)) ELSE s
RECURSIVE rstrip(_)
rstrip(s) == IF s # <<>> /\ s[Len(s)] \in Space THEN rstrip(SubSeq(s, 1, Len(s) - 1)) ELSE s
strip(s) == rstrip(lstrip(s))

\* str.isdigit(): at least one character, all of them digits
isdigit(s) == s # <<>> /\ \A i \in DOMAIN s : s[i] \in Digit

\* text[a:b] for 0 <= a <= b <= len(text)
Slice(s, a, b) == SubSeq(s, a + 1, b)

\* ------------------------------------------------------------------------
\* Regular expressions: syntax trees and the backtracking matcher of re
\* ------------------------------------------------------------------------
\* hi = Unbounded in a repetition stands for "no upper limit"
Unbounded == 0 - 1
In(S) == [t |-> "set", s |-> S]
NotIn(S) == [t |-> "nset", s |-> S]
Ch(c) == In({c})
\* a letter under re.IGNORECASE
ChI(c) == In({LowerChar(c), UpperChar(c)})
WordB == [t |-> "b"]
Cat(l) == [t |-> "cat", l |-> l]
Alt(l) == [t |-> "alt", l |-> l]
Rep(r, lo, hi) == [t |-> "rep", r |-> r, lo |-> lo, hi |-> hi, greedy |-> TRUE]
RepLazy(r, lo, hi) == [t |-> "rep", r |-> r, lo |-> lo, hi |-> hi, greedy |-> FALSE]
Opt(r) == Rep(r, 0, 1)
Plus(r) == Rep(r, 1, Unbounded)
Star(r) == Rep(r, 0, Unbounded)
Lit(w) == Cat([i \in DOMAIN w |-> Ch(w[i])])
LitI(w) == Cat([i \in DOMAIN w |-> ChI(w[i])])

\* \b at offset i of s
IsBoundary(s, i) ==
    ((i > 0) /\ (s[i] \in WordChar)) # ((i < Len(s)) /\ (s[i + 1] \in WordChar))

\* a \o b without the elements of b that a holds already
MergeEnds(a, b) == a \o SelectSeq(b, LAMBDA x : \A k \in DOMAIN a : a[k] # x)

\* Ends(r, s, i): the offsets at which a match of r starting at offset i of s
\* can end, in the order the backtracking matcher tries them (the first is the
\* one it returns), each offset once.
RECURSIVE Ends(_, _, _)
\* the ends of r from each offset of es, in order
RECURSIVE EndsFrom(_, _, _)
EndsFrom(es, r, s) ==
    IF es = <<>> THEN <<>>
    ELSE MergeEnds(Ends(r, s, Head(es)), EndsFrom(Tail(es), r, s))
\* the ends of the alternatives l, the first alternative first
RECURSIVE EndsAlt(_, _, _)
EndsAlt(l, s, i) ==
    IF l = <<>> THEN <<>>
    ELSE MergeEnds(Ends(Head(l), s, i), EndsAlt(Tail(l), s, i))
\* a repetition of a single character class: the run of characters of the
\* class from offset i, at most hi long; every length from lo up is an end,
\* the longest first when greedy, the shortest first when lazy
EndsRun(r, s, i) ==
    LET ok(j) == IF r.r.t = "set" THEN s[j] \in r.r.s ELSE s[j] \notin r.r.s
        cap == IF r.hi = Unbounded \/ i + r.hi > Len(s) THEN Len(s) ELSE i + r.hi
        run == CHOOSE e \in i..cap :
                   /\ \A j \in (i + 1)..e : ok(j)
                   /\ e < cap => ~ok(e + 1)
        n == run - (i + r.lo) + 1
    IN IF n <= 0 THEN <<>>
       ELSE IF r.greedy THEN [k \in 1..n |-> run - (k - 1)]
       ELSE [k \in 1..n |-> i + r.lo + (k - 1)]
\* a repetition of anything else: one more round from each end of a round
\* (an empty round ends the repetition), or stop here once lo rounds are done
EndsRep(r, s, i) ==
    LET stop == IF r.lo = 0 THEN <<i>> ELSE <<>>
        step == SelectSeq(Ends(r.r, s, i), LAMBDA e : e > i)
        rest == [r EXCEPT !.lo = IF r.lo > 0 THEN r.lo - 1 ELSE 0,
                          !.hi = IF r.hi = Unbounded THEN Unbounded ELSE r.hi - 1]
        more == IF r.hi = 0 THEN <<>> ELSE EndsFrom(step, rest, s)
    IN IF r.greedy THEN MergeEnds(more, stop) ELSE MergeEnds(stop, more)
Ends(r, s, i) ==
    CASE r.t = "set"  -> IF i < Len(s) /\ s[i + 1] \in r.s THEN <<i + 1>> ELSE <<>>
      [] r.t = "nset" -> IF i < Len(s) /\ s[i + 1] \notin r.s THEN <<i + 1>> ELSE <<>>
      [] r.t = "b"    -> IF IsBoundary(s, i) THEN <<i>> ELSE <<>>
      [] r.t = "cat"  -> IF r.l = <<>> THEN <<i>>
                         ELSE EndsFrom(Ends(Head(r.l), s, i), Cat(Tail(r.l)), s)
      [] r.t = "alt"  -> EndsAlt(r.l, s, i)
      [] r.t = "rep"  -> IF r.r.t \in {"set", "nset"} THEN EndsRun(r, s, i)
                         ELSE EndsRep(r, s, i)

\* pattern.match at offset i: the end of the match, or NoMatch
NoMatch == 0 - 1
MatchAt(r, s, i) == LET es == Ends(r, s, i) IN IF es = <<>> THEN NoMatch ELSE Head(es)

\* pattern.fullmatch(s)
fullmatch(r, s) == \E k \in DOMAIN Ends(r, s, 0) : Ends(r, s, 0)[k] = Len(s)

\* pattern.finditer(s): the matches [start, end], leftmost first, not
\* overlapping, the scan resuming where the last match ended (one offset
\* further after an empty match)
RECURSIVE FindFrom(_, _, _)
FindFrom(r, s, pos) ==
    LET starts == { p \in pos..Len(s) : MatchAt(r, s, p) # NoMatch }
    IN IF starts = {} THEN <<>>
       ELSE LET p == CHOOSE x \in starts : \A y \in starts : x <= y
                e == MatchAt(r, s, p)
            IN <<[start |-> p, end |-> e]>>
               \o FindFrom(r, s, IF e > p THEN e ELSE p + 1)
finditer(r, s) == FindFrom(r, s, 0)

\* pattern.sub(repl, s): every match replaced by repl
RECURSIVE SubFrom(_, _, _, _)
SubFrom(ms, repl, s, pos) ==
    IF ms = <<>> THEN Slice(s, pos, Len(s))
    ELSE Slice(s, pos, Head(ms).start) \o repl \o SubFrom(Tail(ms), repl, s, Head(ms).end)
\* the same with count=1: only the first match replaced
subFirst(r, repl, s) ==
    LET ms == finditer(r, s)
    IN IF ms = <<>> THEN s ELSE SubFrom(<<Head(ms)>>, repl, s, 0)
sub(r, repl, s) == SubFrom(finditer(r, s), repl, s, 0)

\* ------------------------------------------------------------------------
\* Regex Patterns (PII Formats)
\* ------------------------------------------------------------------------
Sep == {"-", "."} \cup Space
Hex == Digit \cup {"a","b","c","d","e","f","A","B","C","D","E","F"}
\* \d{n}
Digits(lo, hi) == Rep(In(Digit), lo, hi)

EMAIL ==
    Cat(<<WordB, Plus(In(AlNum \cup {".", "_", "%", "+", "-"})), Ch("@"),
          Plus(In(AlNum \cup {".", "-"})), Ch("."), Rep(In(Alpha), 2, Unbounded),
          Opt(Cat(<<Ch("."), Rep(In(Alpha), 2, Unbounded)>>)), WordB>>)
PHONE ==
    Cat(<<WordB, Opt(Cat(<<Opt(Ch("+")), Digits(1, 3)>>)), Opt(In(Sep)),
          Rep(Cat(<<Opt(Ch("(")), Digits(2, 3), Opt(Ch(")")), Opt(In(Sep))>>), 1, 4),
          Digits(2, 4), WordB>>)
URL ==
    Cat(<<WordB, LitI(<<"h","t","t","p">>), Opt(ChI("s")), Lit(<<":","/","/">>),
          NotIn(Space \cup {"/", "$", ".", "?", "#"}), NotIn({"\n"}),
          Star(NotIn(Space)), WordB>>)
CREDIT_CARD ==
    Cat(<<WordB, Rep(Cat(<<In(Digit), RepLazy(In({" ", "-"}), 0, Unbounded)>>), 13, 16),
          WordB>>)
SSN ==
    Cat(<<WordB, Digits(3, 3), Ch("-"), Digits(2, 2), Ch("-"), Digits(4, 4), WordB>>)
IBAN ==
    Cat(<<WordB, Rep(In(Upper), 2, 2), Digits(2, 2), Rep(In(Upper \cup Digit), 11, 30),
          WordB>>)
PASSPORT == Cat(<<WordB, Rep(In(Upper), 1, 1), Digits(6, 8), WordB>>)
GENERIC_ID == Cat(<<WordB, Digits(8, 12), WordB>>)
DATE ==
    Cat(<<WordB, Rep(Cat(<<Digits(1, 2), In({"-", "/"})>>), 2, 2), Digits(2, 4), WordB>>)
\* a month name: its first three letters and, optionally, the rest
Month(abbr, tail) == Cat(<<LitI(abbr), Opt(LitI(tail))>>)
DATE_TEXT ==
    Cat(<<WordB,
          Alt(<<Month(<<"J","a","n">>, <<"u","a","r","y">>),
                Month(<<"F","e","b">>, <<"r","u","a","r","y">>),
                Month(<<"M","a","r">>, <<"c","h">>),
                Month(<<"A","p","r">>, <<"i","l">>),
                LitI(<<"M","a","y">>),
                Month(<<"J","u","n">>, <<"e">>),
                Month(<<"J","u","l">>, <<"y">>),
                Month(<<"A","u","g">>, <<"u","s","t">>),
                Month(<<"S","e","p">>, <<"t","e","m","b","e","r">>),
                Month(<<"O","c","t">>, <<"o","b","e","r">>),
                Month(<<"N","o","v">>, <<"e","m","b","e","r">>),
                Month(<<"D","e","c">>, <<"e","m","b","e","r">>)>>),
          Opt(In({"-"} \cup Space)), Digits(1, 2), Opt(Ch(",")), Opt(In(Space)),
          Digits(2, 4), WordB>>)
IP_ADDRESS ==
    Cat(<<WordB, Rep(Cat(<<Digits(1, 3), Ch(".")>>), 3, 3), Digits(1, 3), WordB>>)
IPV6 ==
    Cat(<<WordB, Rep(Cat(<<Rep(In(Hex), 1, 4), Ch(":")>>), 7, 7), Rep(In(Hex), 1, 4),
          WordB>>)
MAC_ADDRESS ==
    Cat(<<WordB, Rep(Cat(<<Rep(In(Hex), 2, 2), In({":", "-"})>>), 5, 5),
          Rep(In(Hex), 2, 2), WordB>>)
CRYPTO_WALLET ==
    Cat(<<WordB, In({"1", "3"}),
          Rep(In((AlNum \ {"l", "I", "O", "0"})), 25, 34), WordB>>)
ZIP_CODE ==
    Cat(<<WordB, Digits(5, 5), Opt(Cat(<<Ch("-"), Digits(4, 4)>>)), WordB>>)

\* the pattern table, in the dict's insertion order; a label is the string of
\* its characters
REGEX_PATTERNS ==
    << [label |-> <<"E","M","A","I","L">>,
         pattern |-> EMAIL],
       [label |-> <<"P","H","O","N","E">>,
         pattern |-> PHONE],
       [label |-> <<"U","R","L">>,
         pattern |-> URL],
       [label |-> <<"C","R","E","D","I","T","_","C","A","R","D">>,
         pattern |-> CREDIT_CARD],
       [label |-> <<"S","S","N">>,
         pattern |-> SSN],
       [label |-> <<"I","B","A","N">>,
         pattern |-> IBAN],
       [label |-> <<"P","A","S","S","P","O","R","T">>,
         pattern |-> PASSPORT],
       [label |-> <<"G","E","N","E","R","I","C","_","I","D">>,
         pattern |-> GENERIC_ID],
       [label |-> <<"D","A","T","E">>,
         pattern |-> DATE],
       [label |-> <<"D","A","T","E","_","T","E","X","T">>,
         pattern |-> DATE_TEXT],
       [label |-> <<"I","P","_","A","D","D","R","E","S","S">>,
         pattern |-> IP_ADDRESS],
       [label |-> <<"I","P","V","6">>,
         pattern |-> IPV6],
       [label |-> <<"M","A","C","_","A","D","D","R","E","S","S">>,
         pattern |-> MAC_ADDRESS],
       [label |-> <<"C","R","Y","P","T","O","_","W","A","L","L","E","T">>,
         pattern |-> CRYPTO_WALLET],
       [label |-> <<"Z","I","P","_","C","O","D","E">>,
         pattern |-> ZIP_CODE] >>

\* ------------------------------------------------------------------------
\* Config & Constants
\* ------------------------------------------------------------------------
\* 0.6, in hundredths
CONFIDENCE_THRESHOLD == 60
\* 4.5, in tenths
ZIPF_THRESHOLD == 45
DO_NOT_REDACT ==
    { <<"n","a","m","e">>,
      <<"p","e","r","s","o","n">>,
      <<"s","t","r","e","e","t">>,
      <<"r","o","a","d">>,
      <<"a","d","d","r","e","s","s">>,
      <<"p","h","o","n","e">>,
      <<"n","u","m","b","e","r">>,
      <<"e","m","a","i","l">>,
      <<"u","s","e","r">>,
      <<"c","u","s","t","o","m","e","r">>,
      <<"m","a","n","a","g","e","r">>,
      <<"e","m","p","l","o","y","e","e">>,
      <<"d","o","c","t","o","r">>,
      <<"t","e","a","c","h","e","r">>,
      <<"p","a","t","i","e","n","t">> }

\* wordfreq's zipf_frequency(word, "en"), in tenths, on the words of the
\* model's texts: the common words are above the threshold, every other
\* string is below it
CommonWords ==
    { <<"t","h","e">> :> 77,
      <<"w","e","a","t","h","e","r">> :> 50,
      <<"n","i","c","e">> :> 52,
      <<"t","o","d","a","y">> :> 56,
      <<"c","o","n","t","a","c","t">> :> 48,
      <<"e","m","a","i","l">> :> 52,
      <<"d","a","t","e">> :> 54,
      <<"p","e","r","s","o","n">> :> 53 }
zipf_frequency(word) ==
    IF \E c \in CommonWords : DOMAIN c = {word}
    THEN (CHOOSE c \in CommonWords : DOMAIN c = {word})[word]
    ELSE 0

\* ------------------------------------------------------------------------
\* Helper Functions
\* ------------------------------------------------------------------------
\* ent.get("score", 0.0)
GetScore(ent) == IF "score" \in DOMAIN ent THEN ent.score ELSE 0

\* the mistake of counting a missing score as 1.0
is_valid_entity_default_one(ent) ==
    LET text == strip(ent.text)
        label == strip(ent.label)
        score == IF "score" \in DOMAIN ent THEN ent.score ELSE 100
    IN IF score < CONFIDENCE_THRESHOLD THEN FALSE
       ELSE IF lower(text) = lower(label) THEN FALSE
       ELSE IF lower(text) \in DO_NOT_REDACT THEN FALSE
       ELSE IF Len(text) <= 2 THEN FALSE
       ELSE IF isdigit(text) /\ Len(text) < 6 THEN FALSE
       ELSE IF zipf_frequency(text) >= ZIPF_THRESHOLD THEN FALSE
       ELSE TRUE
is_valid_entity(ent) ==
    LET text == strip(ent.text)
        label == strip(ent.label)
        score == GetScore(ent)
    IN IF score < CONFIDENCE_THRESHOLD THEN FALSE
       ELSE IF lower(text) = lower(label) THEN FALSE
       ELSE IF lower(text) \in DO_NOT_REDACT THEN FALSE
       ELSE IF Len(text) <= 2 THEN FALSE
       ELSE IF isdigit(text) /\ Len(text) < 6 THEN FALSE
       ELSE IF zipf_frequency(text) >= ZIPF_THRESHOLD THEN FALSE
       ELSE TRUE

\* the entities of one pattern: one per match, score 1.0.  origin is a
\* history field (which detector made the entity); no operation reads it.
PatternEntities(label, pattern, text) ==
    LET ms == finditer(pattern, text)
    IN [k \in DOMAIN ms |->
          [start |-> ms[k].start, end |-> ms[k].end,
           text |-> Slice(text, ms[k].start, ms[k].end),
           label |-> label, score |-> 100, origin |-> "regex"]]

RECURSIVE FallbackFrom(_, _)
FallbackFrom(patterns, text) ==
    IF patterns = <<>> THEN <<>>
    ELSE PatternEntities(Head(patterns).label, Head(patterns).pattern, text)
         \o FallbackFrom(Tail(patterns), text)
regex_fallback(text) == FallbackFrom(REGEX_PATTERNS, text)

\* the spans of the EMAIL matches of text
ProtectedSpans(text, regex_patterns) ==
    LET email == SelectSeq(regex_patterns, LAMBDA p : p.label = <<"E","M","A","I","L">>)
    IN IF email = <<>> THEN <<>> ELSE finditer(email[1].pattern, text)

\* ent["start"] < end and ent["end"] > start
Intersects(ent, span) == ent.start < span.end /\ ent.end > span.start
\* the mistake of dropping only the entities an EMAIL match contains
drop_contained_in_regex(text, entities, regex_patterns) ==
    LET protected_spans == ProtectedSpans(text, regex_patterns)
    IN SelectSeq(entities, LAMBDA ent :
           ~\E k \in DOMAIN protected_spans :
               ent.start >= protected_spans[k].start /\ ent.end <= protected_spans[k].end)
drop_overlaps_with_regex(text, entities, regex_patterns) ==
    LET protected_spans == ProtectedSpans(text, regex_patterns)
    IN SelectSeq(entities, LAMBDA ent :
           ~\E k \in DOMAIN protected_spans : Intersects(ent, protected_spans[k]))

\* sorted(q, key=...): a stable sort; before[i][j] is key(q[i]) < key(q[j]).
\* An element comes after the elements with a smaller key and after the
\* elements with an equal key that precede it in q.
sorted(q, before) ==
    LET Place(i) == 1 + Cardinality({ j \in DOMAIN q :
                        before[j][i] \/ (~before[i][j] /\ j < i) })
    IN [n \in DOMAIN q |-> q[CHOOSE i \in DOMAIN q : Place(i) = n]]

\* key=lambda x: (x["start"], -x["end"])
MergeKeyBefore(q) == [i \in DOMAIN q |-> [j \in DOMAIN q |-> q[i].start < q[j].start \/ (q[i].start = q[j].start /\ (0 - q[i].end) < (0 - q[j].end))]]

\* the loop of merge_entities over the sorted entities
RECURSIVE MergeLoop(_, _)
MergeLoop(entities, merged) ==
    IF entities = <<>> THEN merged
    ELSE LET ent == Head(entities)
         IN IF merged # <<>> /\ ent.start < merged[Len(merged)].end
            THEN IF ent.end > merged[Len(merged)].end
                 THEN MergeLoop(Tail(entities), [merged EXCEPT ![Len(merged)] = ent])
                 ELSE MergeLoop(Tail(entities), merged)
            ELSE MergeLoop(Tail(entities), Append(merged, ent))
\* the mistake of appending the candidate that ends further instead of
\* putting it in the place of the last entity
RECURSIVE MergeLoopAppending(_, _)
MergeLoopAppending(entities, merged) ==
    IF entities = <<>> THEN merged
    ELSE LET ent == Head(entities)
         IN IF merged # <<>> /\ ent.start < merged[Len(merged)].end
            THEN IF ent.end > merged[Len(merged)].end
                 THEN MergeLoopAppending(Tail(entities), Append(merged, ent))
                 ELSE MergeLoopAppending(Tail(entities), merged)
            ELSE MergeLoopAppending(Tail(entities), Append(merged, ent))
merge_entities_appending(entities) ==
    MergeLoopAppending(sorted(entities, MergeKeyBefore(entities)), <<>>)
merge_entities(entities) == MergeLoop(sorted(entities, MergeKeyBefore(entities)), <<>>)

\* s[:a] and s[b:] for any integers, as Python slices them
PyIndex(s, a) == IF a < 0 THEN (IF a + Len(s) < 0 THEN 0 ELSE a + Len(s))
                 ELSE IF a > Len(s) THEN Len(s) ELSE a
SliceTo(s, a) == SubSeq(s, 1, PyIndex(s, a))
SliceFromTo(s, b) == SubSeq(s, PyIndex(s, b) + 1, Len(s))

\* f"[{ent['label'].upper()}]"
Placeholder(label) == <<"[">> \o upper(label) \o <<"]">>

\* key=lambda x: x["start"], reverse=True
StartAfter(q) == [i \in DOMAIN q |-> [j \in DOMAIN q |-> q[i].start > q[j].start]]
\* the same without reverse=True
StartBefore(q) == [i \in DOMAIN q |-> [j \in DOMAIN q |-> q[i].start < q[j].start]]

RECURSIVE RedactLoop(_, _)
RedactLoop(entities, redacted) ==
    IF entities = <<>> THEN redacted
    ELSE LET ent == Head(entities)
         IN RedactLoop(Tail(entities),
                SliceTo(redacted, ent.start) \o Placeholder(ent.label)
                    \o SliceFromTo(redacted, ent.end))
\* the mistake of replacing in ascending order of start
redact_text_ascending(text, entities) == RedactLoop(sorted(entities, StartBefore(entities)), text)
redact_text(text, entities) == RedactLoop(sorted(entities, StartAfter(entities)), text)

\* the mistake of replacing only the first match (count=1)
enforce_first_email_redaction(text) == subFirst(EMAIL, <<"[","E","M","A","I","L","]">>, text)
enforce_final_email_redaction(text) == sub(EMAIL, <<"[","E","M","A","I","L","]">>, text)

\* ------------------------------------------------------------------------
\* The /redact handler
\* ------------------------------------------------------------------------
VARIABLES
    pc,              \* the handler's position
    text,            \* prompt.text
    raw_entities, valid_entities, regex_entities, safe_entities,
    all_entities, redacted_text,
    merge_input,     \* history: the list handed to merge_entities
    response,        \* what the request answered
    m_in, m_out, m_done,      \* merge_entities alone: argument, result, called
    s_cur, s_prev, s_passes,  \* the final sweep alone: text, text before, sweeps
    r_text, r_ents, r_out, r_done  \* redact_text alone: arguments, result, called

handler_vars == <<pc, text, raw_entities, valid_entities, regex_entities,
                  safe_entities, all_entities, redacted_text, merge_input, response>>
merge_vars == <<m_in, m_out, m_done>>
sweep_vars == <<s_cur, s_prev, s_passes>>
redact_vars == <<r_text, r_ents, r_out, r_done>>
vars == <<handler_vars, merge_vars, sweep_vars, redact_vars>>

\* "not computed yet"
None == <<"None">>

\* the requests' texts
TextSSN ==
    <<"M","y"," ","S","S","N"," ","i","s"," ","1","2","3","-","4","5","-",
      "6","7","8","9",".">>
TextNumber ==
    <<"1","2","3","-","4","5","-","6","7","8","9">>
TextContact ==
    <<"c","o","n","t","a","c","t"," ","m","e"," ","a","t"," ","a","@","b",
      ".","c","o","m"," ","o","r"," ","5","5","5","-","1","2","3","-","4",
      "5","6","7">>
TextBob ==
    <<"B","o","b",","," ","t","h","e"," ","p","e","r","s","o","n",":"," ",
      "1","2","3","4","5">>
TextDate ==
    <<"d","a","t","e"," ","1","/","2","/","9","9">>
TextWeather ==
    <<"T","h","e"," ","w","e","a","t","h","e","r"," ","i","s"," ","n","i",
      "c","e"," ","t","o","d","a","y",".">>
TextEmpty == <<>>
Texts == {TextSSN, TextNumber, TextContact, TextBob, TextDate, TextWeather, TextEmpty}

\* the labels handed to the model that its answers below use
LabelPerson == <<"p","e","r","s","o","n">>
LabelEmail == <<"e","m","a","i","l">>
LabelPhone == <<"p","h","o","n","e"," ","n","u","m","b","e","r">>
LabelID == <<"I","D"," ","n","u","m","b","e","r">>
LabelSSN == <<"s","o","c","i","a","l"," ","s","e","c","u","r","i","t","y"," ","n","u","m","b","e","r">>
LabelDate == <<"d","a","t","e">>

\* an entity of the model: the span, the text and the label it reports, and
\* its score (NoScore: the key is missing)
NoScore == 0 - 1
ModelEntity(start, end, txt, label, score) ==
    IF score = NoScore
    THEN [start |-> start, end |-> end, text |-> txt, label |-> label, origin |-> "model"]
    ELSE [start |-> start, end |-> end, text |-> txt, label |-> label, score |-> score,
          origin |-> "model"]
\* an entity whose text is the slice of its span
Found(t, start, end, label, score) == ModelEntity(start, end, Slice(t, start, end), label, score)

\* model.predict_entities is outside the repository: any list, in any order,
\* of at most MaxModelEnts of these entities, overlapping or not, well formed
\* or not, or an exception
MaxModelEnts == 2
Candidates(t) ==
    CASE t = TextSSN ->
            { Found(t, 10, 21, LabelSSN, 90), Found(t, 10, 21, LabelPhone, 95),
              Found(t, 3, 6, LabelID, 30) }
      [] t = TextNumber ->
            { Found(t, 0, 11, LabelPhone, 95), Found(t, 0, 11, LabelSSN, 70),
              Found(t, 4, 11, LabelID, 90) }
      [] t = TextContact ->
            { Found(t, 14, 21, LabelEmail, 99), Found(t, 11, 17, LabelPerson, 80),
              Found(t, 0, 10, LabelPerson, 70), Found(t, 25, 37, LabelPhone, 90) }
      [] t = TextBob ->
            { Found(t, 0, 3, LabelPerson, 90), Found(t, 0, 3, LabelPerson, NoScore),
              Found(t, 5, 8, LabelPerson, 90), Found(t, 9, 15, LabelID, 90),
              Found(t, 17, 22, LabelID, 90),
              ModelEntity(3, 3, <<"B","o","b">>, LabelPerson, 90),
              ModelEntity(9, 30, Slice(t, 9, Len(t)), LabelPerson, 90) }
      [] t = TextDate ->
            { Found(t, 0, 4, LabelDate, 90), Found(t, 5, 11, LabelDate, 59),
              Found(t, 5, 11, LabelDate, 60), Found(t, 7, 9, LabelID, 90) }
      [] t = TextWeather ->
            { Found(t, 4, 11, LabelPerson, 90), Found(t, 20, 25, LabelDate, 90) }
      [] OTHER -> {}
\* the lists of at most n elements of S
SeqsUpTo(S, n) == UNION { [1..k -> S] : k \in 0..n }

HandlerInit ==
    /\ pc = "idle"
    /\ text = None
    /\ raw_entities = None
    /\ valid_entities = None
    /\ regex_entities = None
    /\ safe_entities = None
    /\ all_entities = None
    /\ redacted_text = None
    /\ merge_input = None
    /\ response = None

\* POST /redact arrives: text = prompt.text
Request(t) ==
    /\ pc \in {"idle", "done", "failed"}
    /\ pc' = "predict"
    /\ text' = t
    /\ raw_entities' = None
    /\ valid_entities' = None
    /\ regex_entities' = None
    /\ safe_entities' = None
    /\ all_entities' = None
    /\ redacted_text' = None
    /\ merge_input' = None
    /\ response' = None

\* Step 1: raw_entities = model.predict_entities(text, labels=labels)
PredictReturns(ents) ==
    /\ pc = "predict"
    /\ raw_entities' = ents
    /\ pc' = "filter"
    /\ UNCHANGED <<text, valid_entities, regex_entities, safe_entities, all_entities,
                   redacted_text, merge_input, response>>

\* Step 1, the model raising: nothing in redact catches, the request fails
PredictRaises ==
    /\ pc = "predict"
    /\ pc' = "failed"
    /\ response' = [status |-> "error"]
    /\ UNCHANGED <<text, raw_entities, valid_entities, regex_entities, safe_entities,
                   all_entities, redacted_text, merge_input>>

\* Step 2: valid_entities = [ent for ent in raw_entities if is_valid_entity(ent)]
Filter ==
    /\ pc = "filter"
    /\ valid_entities' = SelectSeq(raw_entities, is_valid_entity)
    /\ pc' = "regex"
    /\ UNCHANGED <<text, raw_entities, regex_entities, safe_entities, all_entities,
                   redacted_text, merge_input, response>>

\* Step 3: regex_entities = regex_fallback(text)
RegexFallback ==
    /\ pc = "regex"
    /\ regex_entities' = regex_fallback(text)
    /\ pc' = "drop"
    /\ UNCHANGED <<text, raw_entities, valid_entities, safe_entities, all_entities,
                   redacted_text, merge_input, response>>

\* Step 4: safe_entities = drop_overlaps_with_regex(text, valid_entities, REGEX_PATTERNS)
DropOverlaps ==
    /\ pc = "drop"
    /\ safe_entities' = drop_overlaps_with_regex(text, valid_entities, REGEX_PATTERNS)
    /\ pc' = "merge"
    /\ UNCHANGED <<text, raw_entities, valid_entities, regex_entities, all_entities,
                   redacted_text, merge_input, response>>

\* Step 5: all_entities = merge_entities(safe_entities + regex_entities)
Merge ==
    /\ pc = "merge"
    /\ merge_input' = safe_entities \o regex_entities
    /\ all_entities' = merge_entities(safe_entities \o regex_entities)
    /\ pc' = "redact"
    /\ UNCHANGED <<text, raw_entities, valid_entities, regex_entities, safe_entities,
                   redacted_text, response>>

\* Step 6: redacted_text = redact_text(text, all_entities)
Redact ==
    /\ pc = "redact"
    /\ redacted_text' = redact_text(text, all_entities)
    /\ pc' = "sweep"
    /\ UNCHANGED <<text, raw_entities, valid_entities, regex_entities, safe_entities,
                   all_entities, merge_input, response>>

\* Step 7: redacted_text = enforce_final_email_redaction(redacted_text)
FinalSweep ==
    /\ pc = "sweep"
    /\ redacted_text' = enforce_final_email_redaction(redacted_text)
    /\ pc' = "return"
    /\ UNCHANGED <<text, raw_entities, valid_entities, regex_entities, safe_entities,
                   all_entities, merge_input, response>>

\* return {"original": text, "redacted": redacted_text, "entities": all_entities}
Return ==
    /\ pc = "return"
    /\ response' = [status |-> "ok", original |-> text, redacted |-> redacted_text,
                    entities |-> all_entities]
    /\ pc' = "done"
    /\ UNCHANGED <<text, raw_entities, valid_entities, regex_entities, safe_entities,
                   all_entities, redacted_text, merge_input>>

\* the variables of the functions checked alone, when the handler runs
MergeIdle == m_in = <<>> /\ m_out = <<>> /\ m_done = FALSE
SweepIdle == s_cur = <<>> /\ s_prev = <<>> /\ s_passes = 0
RedactIdle == r_text = <<>> /\ r_ents = <<>> /\ r_out = <<>> /\ r_done = FALSE

Init == HandlerInit /\ MergeIdle /\ SweepIdle /\ RedactIdle
Next ==
    \/ \E t \in Texts : Request(t) /\ UNCHANGED <<merge_vars, sweep_vars, redact_vars>>
    \/ \E ents \in SeqsUpTo(Candidates(text), MaxModelEnts) :
          PredictReturns(ents) /\ UNCHANGED <<merge_vars, sweep_vars, redact_vars>>
    \/ PredictRaises /\ UNCHANGED <<merge_vars, sweep_vars, redact_vars>>
    \/ Filter /\ UNCHANGED <<merge_vars, sweep_vars, redact_vars>>
    \/ RegexFallback /\ UNCHANGED <<merge_vars, sweep_vars, redact_vars>>
    \/ DropOverlaps /\ UNCHANGED <<merge_vars, sweep_vars, redact_vars>>
    \/ Merge /\ UNCHANGED <<merge_vars, sweep_vars, redact_vars>>
    \/ Redact /\ UNCHANGED <<merge_vars, sweep_vars, redact_vars>>
    \/ FinalSweep /\ UNCHANGED <<merge_vars, sweep_vars, redact_vars>>
    \/ Return /\ UNCHANGED <<merge_vars, sweep_vars, redact_vars>>
Spec == Init /\ [][Next]_vars

\* ------------------------------------------------------------------------
\* merge_entities alone, on every list of at most MaxEnts candidates with
\* spans 0 <= start < end <= MaxPos and one of two labels
\* ------------------------------------------------------------------------
MaxEnts == 3
MaxPos == 4
MergeLabels == { <<"P","H","O","N","E">>, <<"S","S","N">> }
MergeCandidates ==
    { e \in [start : 0..MaxPos, end : 0..MaxPos, label : MergeLabels] : e.start < e.end }

InitMerge ==
    /\ HandlerInit /\ SweepIdle /\ RedactIdle
    /\ m_in \in SeqsUpTo(MergeCandidates, MaxEnts)
    /\ m_out = <<>>
    /\ m_done = FALSE
\* merged = merge_entities(entities)
MergeCall ==
    /\ ~m_done
    /\ m_out' = merge_entities(m_in)
    /\ m_done' = TRUE
    /\ UNCHANGED <<m_in, handler_vars, sweep_vars, redact_vars>>
NextMerge == MergeCall
SpecMerge == InitMerge /\ [][NextMerge]_vars

\* two spans share a character
Overlap(x, y) == x.start < y.end /\ y.start < x.end
SpanLen(x) == x.end - x.start

\* C1: for every list of candidates, whatever its order and however the spans
\* overlap or coincide, the list merge_entities returns is sorted by ascending
\* start and no two of its entities overlap: output[i].end <= output[j].start
\* for all i < j.
C1_MergedSortedDisjoint ==
    m_done =>
        \A i \in DOMAIN m_out : \A j \in DOMAIN m_out :
            i < j => /\ m_out[i].start <= m_out[j].start
                     /\ m_out[i].end <= m_out[j].start
\* three candidates, the second replacing the first in the sweep, and two
\* entities in the result
C1_Witness ==
    /\ m_done
    /\ Len(m_in) = 3
    /\ Len(m_out) = 2
    /\ \E i \in DOMAIN m_in : \E j \in DOMAIN m_in :
          /\ Overlap(m_in[i], m_in[j])
          /\ m_in[i].start < m_in[j].start /\ m_in[i].end < m_in[j].end
          /\ m_in[j] = m_out[1]

\* the entities of a list, as a set of spans with their labels
EntitySet(q) == { [start |-> q[k].start, end |-> q[k].end, label |-> q[k].label] :
                    k \in DOMAIN q }
\* the orders of a list
Permuted(q) == { [k \in DOMAIN q |-> q[f[k]]] : f \in Permutations(DOMAIN q) }

\* C2: merge_entities is order-independent: merging any permutation of a
\* candidate list yields the same set of entities, spans and labels, as
\* merging the list itself, also when two candidates have the same span and
\* different labels.
C2_MergeOrderIndependent ==
    m_done =>
        \A q \in Permuted(m_in) : EntitySet(merge_entities(q)) = EntitySet(m_out)

\* C3: longest span wins and the cover is maximal: a candidate left out of the
\* result overlaps an entity of the result that is at least as long.
C3_LongestSpanWins ==
    m_done =>
        \A i \in DOMAIN m_in :
            (~\E k \in DOMAIN m_out : m_out[k] = m_in[i]) =>
                \E k \in DOMAIN m_out :
                    Overlap(m_out[k], m_in[i]) /\ SpanLen(m_out[k]) >= SpanLen(m_in[i])

\* ------------------------------------------------------------------------
\* enforce_final_email_redaction alone, applied MaxSweeps times in a row to
\* every text made of at most MaxTokens of the pieces below
\* ------------------------------------------------------------------------
MaxTokens == 3
MaxSweeps == 2
SweepTokens ==
    { <<"a","@","b",".","c","c">>, <<"@">>, <<".">>, <<"a">>, <<"-">>, <<" ">>,
      <<"1">>, <<"_">> }
RECURSIVE Flatten(_)
Flatten(qs) == IF qs = <<>> THEN <<>> ELSE Head(qs) \o Flatten(Tail(qs))
SweepTexts == { Flatten(ts) : ts \in SeqsUpTo(SweepTokens, MaxTokens) }

InitSweep ==
    /\ HandlerInit /\ MergeIdle /\ RedactIdle
    /\ s_cur \in SweepTexts
    /\ s_prev = s_cur
    /\ s_passes = 0
\* text = enforce_final_email_redaction(text)
SweepCall ==
    /\ s_passes < MaxSweeps
    /\ s_prev' = s_cur
    /\ s_cur' = enforce_final_email_redaction(s_cur)
    /\ s_passes' = s_passes + 1
    /\ UNCHANGED <<handler_vars, merge_vars, redact_vars>>
NextSweep == SweepCall
SpecSweep == InitSweep /\ [][NextSweep]_vars

\* C5: the final sweep is idempotent: a second sweep returns the first sweep's
\* result unchanged; the result of a sweep holds no EMAIL match (a placeholder
\* and its neighbours never form one); a text with no match is returned
\* unchanged.
C5_SweepIdempotent ==
    /\ s_passes >= 2 => s_cur = s_prev
    /\ s_passes >= 1 => finditer(EMAIL, s_cur) = <<>>
    /\ (s_passes = 1 /\ finditer(EMAIL, s_prev) = <<>>) => s_cur = s_prev
\* swept twice, a placeholder of the first sweep next to a character that
\* starts a domain or ends a local part
C5_Witness ==
    /\ s_passes = 2
    /\ \E i \in DOMAIN s_cur :
          \/ s_cur[i] = "]" /\ i < Len(s_cur) /\ s_cur[i + 1] \in {".", "@"}
          \/ s_cur[i] = "[" /\ i > 1 /\ s_cur[i - 1] \in {"@", "a"}

\* ------------------------------------------------------------------------
\* redact_text alone, on the text of the first n <= MaxTextLen letters and
\* every list, in every order, of at most MaxSpans entities with spans
\* 0 <= start < end <= n that do not overlap pairwise
\* ------------------------------------------------------------------------
MaxTextLen == 5
MaxSpans == 2
Letters == <<"a","b","c","d","e","f","g","h","i","j">>
RedactLabels == { <<"s","s","n">>, <<"E","M","A","I","L">> }
RedactCandidates(n) ==
    { e \in [start : 0..n, end : 0..n, label : RedactLabels] : e.start < e.end }
Disjoint(q) ==
    \A i \in DOMAIN q : \A j \in DOMAIN q : i # j => ~Overlap(q[i], q[j])

InitRedact ==
    /\ HandlerInit /\ MergeIdle /\ SweepIdle
    /\ \E n \in 0..MaxTextLen :
          /\ r_text = SubSeq(Letters, 1, n)
          /\ r_ents \in { q \in SeqsUpTo(RedactCandidates(n), MaxSpans) : Disjoint(q) }
    /\ r_out = <<>>
    /\ r_done = FALSE
\* redacted = redact_text(text, entities)
RedactCall ==
    /\ ~r_done
    /\ r_out' = redact_text(r_text, r_ents)
    /\ r_done' = TRUE
    /\ UNCHANGED <<r_text, r_ents, handler_vars, merge_vars, sweep_vars>>
NextRedact == RedactCall
SpecRedact == InitRedact /\ [][NextRedact]_vars

\* the text read from offset i on, left to right: at the start of a span,
\* '[' + the label in upper case + ']' and on from the span's end; elsewhere
\* the character itself
RECURSIVE Replaced(_, _, _)
Replaced(t, q, i) ==
    IF i >= Len(t) THEN <<>>
    ELSE IF \E k \in DOMAIN q : q[k].start = i
    THEN LET e == q[CHOOSE k \in DOMAIN q : q[k].start = i]
         IN <<"[">> \o [n \in DOMAIN e.label |-> UpperChar(e.label[n])] \o <<"]">>
            \o Replaced(t, q, e.end)
    ELSE <<t[i + 1]>> \o Replaced(t, q, i + 1)

\* C10: for every text and every list, in any order, of in-bounds entities
\* that do not overlap pairwise, redact_text returns the text with each span
\* replaced by '[' + uppercase(label) + ']' and every character outside the
\* spans kept, in order: a replacement never shifts the offsets of a later one.
C10_RedactReplacesEachSpan == r_done => r_out = Replaced(r_text, r_ents, 0)
\* two entities, given in ascending order, with kept characters before,
\* between and after them
C10_Witness ==
    /\ r_done
    /\ Len(r_ents) = 2
    /\ 0 < r_ents[1].start
    /\ r_ents[1].end < r_ents[2].start
    /\ r_ents[2].end < Len(r_text)

\* ------------------------------------------------------------------------
\* The /redact handler: the claims
\* ------------------------------------------------------------------------
\* the handler is past the call of merge_entities
Merged == pc \in {"redact", "sweep", "return", "done"}
\* the offsets i such that q[i..] starts with w
Occurs(w, q) == { i \in 0..(Len(q) - Len(w)) : SubSeq(q, i + 1, i + Len(w)) = w }

\* C4: in the entity list a request returns, every entity whose text fully
\* matches the SSN format is labelled SSN, whatever other detector claimed the
\* span and in whatever order; "My SSN is 123-45-6789." yields exactly one
\* entity, labelled SSN, and the redacted text "My SSN is [SSN].".
C4_SSNAlwaysLabelledSSN ==
    pc = "done" =>
        /\ \A k \in DOMAIN response.entities :
              fullmatch(SSN, response.entities[k].text)
                  => response.entities[k].label = <<"S","S","N">>
        /\ text = TextSSN =>
              /\ Len(response.entities) = 1
              /\ response.entities[1].label = <<"S","S","N">>
              /\ Occurs(<<"[","S","S","N","]">>, response.redacted) # {}

\* C6: when the model call fails, the request still completes, with the
\* regex-only result: original, redacted and entities of the regex detector,
\* the merger, the redactor and the final sweep.
C6_ModelFailureGivesRegexOnlyResult ==
    pc = "failed" =>
        /\ response.status = "ok"
        /\ response.original = text
        /\ response.entities = merge_entities(regex_fallback(text))
        /\ response.redacted =
              enforce_final_email_redaction(
                  redact_text(text, merge_entities(regex_fallback(text))))

\* C7: a model entity with a malformed span is discarded before validation:
\* every entity of the final list has 0 <= start < end <= length(text).
C7_FinalSpansWellFormed ==
    Merged =>
        \A k \in DOMAIN all_entities :
            /\ 0 <= all_entities[k].start
            /\ all_entities[k].start < all_entities[k].end
            /\ all_entities[k].end <= Len(text)

\* a span intersects an EMAIL match of the request's text
HitsEmail(e) ==
    \E k \in DOMAIN finditer(EMAIL, text) :
        LET m == finditer(EMAIL, text)[k]
        IN e.start < m.end /\ e.end > m.start
FromModel(e) == e.origin = "model"

\* C8: no model entity whose span intersects an EMAIL match of the text
\* reaches the merger or the final list; the model entities that intersect
\* none pass drop_overlaps_with_regex unchanged, in their order.
C8_EmailSpansWin ==
    /\ pc \in {"merge"} \cup {"redact", "sweep", "return", "done"} =>
          safe_entities = SelectSeq(valid_entities, LAMBDA e : ~HitsEmail(e))
    /\ Merged =>
          /\ \A k \in DOMAIN merge_input :
                FromModel(merge_input[k]) => ~HitsEmail(merge_input[k])
          /\ \A k \in DOMAIN all_entities :
                FromModel(all_entities[k]) => ~HitsEmail(all_entities[k])
\* a valid model entity that straddles the start of the email was dropped and
\* a valid one off the email came through, into the final list
C8_Witness ==
    /\ pc = "done"
    /\ \E k \in DOMAIN valid_entities :
          /\ HitsEmail(valid_entities[k])
          /\ valid_entities[k].start < 14
          /\ valid_entities[k].label = LabelPerson
    /\ \E k \in DOMAIN all_entities : FromModel(all_entities[k])
    /\ Len(safe_entities) = 1

\* the validator's conditions, as the claim lists them
MemberOf(w, S) == \E x \in S : x = w
PassedValidator(e) ==
    /\ ("score" \in DOMAIN e) /\ e.score >= CONFIDENCE_THRESHOLD
    /\ lower(strip(e.text)) # lower(strip(e.label))
    /\ ~MemberOf(lower(strip(e.text)), DO_NOT_REDACT)
    /\ ~MemberOf(lower(strip(e.text)), {<<"p","e","r","s","o","n">>})
    /\ Len(strip(e.text)) > 2
    /\ ~(Len(strip(e.text)) < 6 /\ \A i \in DOMAIN strip(e.text) : strip(e.text)[i] \in Digit)
    /\ zipf_frequency(strip(e.text)) < ZIPF_THRESHOLD

\* C9: every model entity of the final list passed every check of the
\* validator (a missing score counts as 0.0); the regex entities, score 1.0,
\* reach the merger without the validator: every match of every pattern is in
\* the list handed to merge_entities.
C9_ModelEntitiesValidated ==
    /\ Merged =>
          /\ \A k \in DOMAIN merge_input :
                FromModel(merge_input[k]) => PassedValidator(merge_input[k])
          /\ \A k \in DOMAIN all_entities :
                FromModel(all_entities[k]) => PassedValidator(all_entities[k])
    /\ pc = "redact" =>
          \A p \in DOMAIN REGEX_PATTERNS :
              \A j \in DOMAIN finditer(REGEX_PATTERNS[p].pattern, text) :
                  LET m == finditer(REGEX_PATTERNS[p].pattern, text)[j]
                  IN \E k \in DOMAIN merge_input :
                        /\ merge_input[k].start = m.start
                        /\ merge_input[k].end = m.end
                        /\ merge_input[k].label = REGEX_PATTERNS[p].label
                        /\ merge_input[k].score = 100
                        /\ ~FromModel(merge_input[k])
\* the model reported "Bob" twice, once with a score and once without; the
\* one with a score is in the final list, and the regex entity "12345", which
\* the validator would reject, went to the merger
C9_Witness ==
    /\ pc = "done"
    /\ text = TextBob
    /\ Len(raw_entities) = 2
    /\ \E k \in DOMAIN raw_entities : "score" \notin DOMAIN raw_entities[k]
    /\ Len(valid_entities) = 1
    /\ \E k \in DOMAIN all_entities : FromModel(all_entities[k])
    /\ \E k \in DOMAIN merge_input :
          ~FromModel(merge_input[k]) /\ ~is_valid_entity(merge_input[k])

====
